---- MODULE Spec2Model ----
(***************************************************************************)
(* A model of src/src/Reader.ts (class Reader of nfc-pcsc): the status     *)
(* handler, connect/disconnect/transmit, the tag dispatcher, and the       *)
(* MIFARE key-slot cache with its coalesced key loads.                     *)
(*                                                                         *)
(* Scheduling follows JavaScript: a provider callback, a status callback   *)
(* or a user call is a macrotask and runs only when the microtask queue    *)
(* `jobs` is empty; the continuation of every `await` is a job appended to *)
(* `jobs` when the awaited promise settles, in registration order.         *)
(***************************************************************************)
EXTENDS Integers, Sequences, FiniteSets, TLC

\* ------------------------------------------------------------------ bounds
MaxStatus == 3
MaxUserTx == 1
MaxProviderErrors == 1
MaxAuth == 3
MaxIo == 1
MaxAidSets == 1
MaxKeyCalls == 2

\* ------------------------------------------------------- provider constants
SCARD_STATE_EMPTY == 16
SCARD_STATE_PRESENT == 32
SCARD_STATE_INUSE == 256

\* The reader states the provider reports: a reader is either empty or holds
\* a card; INUSE is a bit that changes without an insertion or a removal.
StatusStates ==
    { SCARD_STATE_EMPTY, SCARD_STATE_PRESENT, SCARD_STATE_PRESENT + SCARD_STATE_INUSE }

RECURSIVE BitAnd(_, _)
BitAnd(a, b) ==
    IF a = 0 \/ b = 0 THEN 0
    ELSE (IF a % 2 = 1 /\ b % 2 = 1 THEN 1 ELSE 0) + 2 * BitAnd(a \div 2, b \div 2)

RECURSIVE BitXor(_, _)
BitXor(a, b) ==
    IF a = 0 THEN b
    ELSE IF b = 0 THEN a
    ELSE (IF a % 2 = b % 2 THEN 0 ELSE 1) + 2 * BitXor(a \div 2, b \div 2)

\* ------------------------------------------------------------------- bytes
HexDigits == <<"0", "1", "2", "3", "4", "5", "6", "7", "8", "9", "a", "b", "c", "d", "e", "f">>

\* Buffer.toString('hex'): two lowercase digits per byte.
RECURSIVE ToHex(_)
ToHex(bytes) ==
    IF bytes = <<>> THEN <<>>
    ELSE <<HexDigits[(Head(bytes) \div 16) + 1], HexDigits[(Head(bytes) % 16) + 1]>>
         \o ToHex(Tail(bytes))

\* Buffer.readUInt16BE at the last two bytes of a response of length >= 2.
StatusWord(resp) == resp[Len(resp) - 1] * 256 + resp[Len(resp)]

\* response.slice(0, -2)
Payload(resp) == SubSeq(resp, 1, Len(resp) - 2)

SW_OK == <<144, 0>>
SW_FAIL == <<99, 0>>
SW_NOT_FOUND == <<106, 130>>

\* ------------------------------------------------------------------- cards
\* An absent ATR (status.atr undefined) is the empty sequence.
NoAtr == <<>>
Atr3 == <<59, 143, 128, 1, 128, 79>>
Atr4 == <<59, 129, 128, 1, 128, 128>>
Atrs == { NoAtr, Atr3, Atr4 }

TAG_ISO_14443_3 == "TAG_ISO_14443_3"
TAG_ISO_14443_4 == "TAG_ISO_14443_4"

selectStandardByAtr(atr) ==
    IF Len(atr) >= 6 /\ atr[6] = 79 THEN TAG_ISO_14443_3 ELSE TAG_ISO_14443_4

\* this.card = null; `ins` numbers the insertion that built the card object.
NoCard == [ins |-> 0, atr |-> NoAtr, standard |-> "undefined", uid |-> <<>>]

\* this.card = {} and, with an ATR, atr / standard / type.
NewCard(n, atr) ==
    [ins |-> n, atr |-> atr,
     standard |-> IF atr # NoAtr THEN selectStandardByAtr(atr) ELSE "undefined",
     uid |-> <<>>]

\* The UID the card of insertion n answers to Get-UID.
UidBytes(n) == <<4, n>>

AidBytes == <<240, 1, 2>>
AidConfigs == { "unset", "buffer", "fn_buffer", "fn_other" }

\* The values the user passes to the aid setter: a Buffer, a hex string, a
\* function that returns a Buffer, a function that returns something else,
\* and a value of another type.
AidValues == { "buffer", "string", "fn_buffer", "fn_other", "other" }

GetUidPacket == <<255, 202, 0, 0, 0>>
SelectPacket(aidBytes) == <<0, 164, 4, 0, Len(aidBytes)>> \o aidBytes \o <<0>>


\* -------------------------------------------------------------------- keys
\* Key strings are sequences of characters; three are used: one key in
\* lowercase hex, the same six bytes in uppercase hex, and another key.
KeyLower == <<"f", "f", "f", "f", "f", "f", "f", "f", "f", "f", "f", "f">>
KeyUpper == <<"F", "F", "F", "F", "F", "F", "F", "F", "F", "F", "F", "F">>
KeyOther == <<"a", "0", "b", "1", "c", "2", "d", "3", "e", "4", "f", "5">>
KeyStrings == { KeyLower, KeyUpper, KeyOther }

\* The contents keyStorage can have when the calls of the model begin:
\* nothing loaded yet, or both slots holding the keys of earlier calls.
StoredKeyA == <<1, 2, 3, 4, 5, 6>>
StoredKeyB == <<17, 34, 51, 68, 85, 102>>

\* The block the n-th authenticate call names: the two blocks in turn.
BlockOf(n) == IF n % 2 = 1 THEN 4 ELSE 5
KEY_TYPE_A == 96
Slots == { 0, 1 }

\* String.toLowerCase on one character.
LowerChar(c) ==
    CASE c = "A" -> "a" [] c = "B" -> "b" [] c = "C" -> "c"
      [] c = "D" -> "d" [] c = "E" -> "e" [] c = "F" -> "f"
      [] OTHER -> c

toLowerCase(str) == [i \in 1..Len(str) |-> LowerChar(str[i])]

\* The value of a hex digit, in either case.
HexVal(c) == CHOOSE v \in 0..15 : HexDigits[v + 1] = LowerChar(c)

\* Buffer.from(str, 'hex'): one byte per pair of digits.
RECURSIVE FromHex(_)
FromHex(str) ==
    IF Len(str) < 2 THEN <<>>
    ELSE <<16 * HexVal(str[1]) + HexVal(str[2])>> \o FromHex(SubSeq(str, 3, Len(str)))

LoadKeyPacket(keyNumber, keyBytes) ==
    <<255, 130, 0, keyNumber, Len(keyBytes)>> \o keyBytes

AuthenticatePacket(blockNumber, keyType, keyNumber) ==
    <<255, 134, 0, 0, 5, 1, 0, blockNumber, keyType, keyNumber>>

VARIABLES
    readerState,   \* this.reader.state: the state bits of the previous status
    ended,         \* the provider has signalled 'end'
    card,          \* this.card
    connection,    \* this.connection: 0 is null, n the connect of insertion n
    autoProcessing,
    aid,           \* this._aid, one of AidConfigs
    nAidSets,      \* calls of the aid setter
    aidThrew,      \* TRUE when the last call of the aid setter threw
    ops,           \* provider calls whose callback has not run yet
    jobs,          \* the microtask queue
    log,           \* emitted events and resolved transmit calls, in order
    userTx,        \* the user's transmit calls and their outcomes
    ios,           \* the user's read, write and control calls
    keyStorage,    \* this.keyStorage: slot -> key bytes, <<>> is null
    pendingLoadAuthenticationKey,  \* key string -> load, 0 is no entry
    loads,         \* the loadAuthenticationKey calls made by authenticate
    auths,         \* the authenticate calls
    nStatus,       \* status callbacks delivered
    insertions,    \* insertions[n]: the status callback that was insertion n
    turn,          \* "user": user code is running; "settled": an authenticate
                   \* promise was settled by the job that ran last; else "idle"
    nProviderErrors

cardVars == <<card, connection>>
configVars == <<autoProcessing, aid, nAidSets, aidThrew>>
providerVars == <<readerState, ended>>
countVars == <<nStatus, insertions, nProviderErrors>>

\* The number of insertions handled.
nIns == Len(insertions)
keyVars == <<keyStorage, pendingLoadAuthenticationKey, loads, auths, turn>>

vars ==
    <<readerState, ended, card, connection, autoProcessing, aid, nAidSets, aidThrew, ops, jobs, log,
      userTx, ios, keyStorage, pendingLoadAuthenticationKey, loads, auths,
      nStatus, insertions, nProviderErrors, turn>>

\* A provider call in flight. kind: connect | disconnect | transmit; who: the
\* caller; st: the status callback it serves; ins: the card in the field when
\* it was issued; packet: the APDU.
Op(kind, who, ref, st, ins, packet) ==
    [kind |-> kind, who |-> who, ref |-> ref, st |-> st, ins |-> ins, packet |-> packet]

\* A job: the continuation of an await. k names the continuation; ok and resp
\* are the outcome of the awaited promise.
Job(k, ref, st, ok, resp) ==
    [k |-> k, ref |-> ref, st |-> st, ok |-> ok, resp |-> resp]

\* A log entry. chan: the event name passed to emit, or "transmit.ok" for a
\* transmit promise that resolved; snap: the card snapshot; st: the triggering
\* status callback (0: none); held: the insertion of this.card at that moment;
\* code: the error's code; data: the SELECT payload of a 14443-4 card event.
Entry(chan, snap, st, code, data) ==
    [chan |-> chan, snap |-> snap, st |-> st, held |-> card.ins, code |-> code,
     data |-> data]

Init ==
    /\ readerState = 0
    /\ ended = FALSE
    /\ card = NoCard
    /\ connection = 0
    /\ autoProcessing \in BOOLEAN
    /\ aid = "unset"
    /\ nAidSets = 0
    /\ aidThrew = FALSE
    /\ ops = {}
    /\ jobs = <<>>
    /\ log = <<>>
    /\ userTx = <<>>
    /\ ios = <<>>
    /\ keyStorage = [slot \in Slots |-> <<>>]
    /\ pendingLoadAuthenticationKey = [k \in KeyStrings |-> 0]
    /\ loads = <<>>
    /\ auths = <<>>
    /\ turn = "idle"
    /\ nStatus = 0
    /\ insertions = <<>>
    /\ nProviderErrors = 0

\* ------------------------------------------------------------- transmit
\* Reader.transmit at the time of the call: it throws without a card,
\* rejects without a connection, and otherwise calls the provider.
transmit ==
    IF card = NoCard THEN "throw"
    ELSE IF connection = 0 THEN "reject"
    ELSE "forward"

\* --------------------------------------------------- the status handler
IsRemoval(s) ==
    LET changes == BitXor(readerState, s)
    IN  /\ changes # 0
        /\ BitAnd(changes, SCARD_STATE_EMPTY) # 0
        /\ BitAnd(s, SCARD_STATE_EMPTY) # 0

IsInsertion(s) ==
    LET changes == BitXor(readerState, s)
    IN  /\ changes # 0
        /\ ~IsRemoval(s)
        /\ BitAnd(changes, SCARD_STATE_PRESENT) # 0
        /\ BitAnd(s, SCARD_STATE_PRESENT) # 0

\* A macrotask (a callback of the provider, a call of the user) starts only
\* when no continuation is waiting to run.
Macrotask == jobs = <<>>

\* User code can run: between callbacks, in a listener of card.off while
\* the removal branch is inside its emit, or on after a call of read or write
\* that has not resumed from its await yet.
UserMayCall == IF jobs = <<>> THEN TRUE ELSE Head(jobs).k \in {"removing", "ioRejects"}

StatusAllowed(s) ==
    /\ Macrotask
    /\ ~ended
    /\ nStatus < MaxStatus
    /\ s \in StatusStates

\* RemovalEmits without the card.off event.
RemovalEmits_Silent(st) == <<>>

\* What the removal branch emits: card.off with a snapshot of the card, when
\* a card is held.
RemovalEmits(st) ==
    IF card # NoCard THEN <<Entry("card.off", card, st, "", <<>>)>> ELSE <<>>

\* RemovalCard with the card kept.
RemovalCard_Kept == card

\* The card after the removal branch.
RemovalCard == NoCard

\* The provider call of the removal branch: disconnect, when a connection
\* is held (the handler then awaits it).
RemovalOps(st) ==
    IF connection # 0
    THEN {Op("disconnect", "handler", 0, st, card.ins, <<>>)}
    ELSE {}

\* Status handler, "card removed", up to the return of its emit: with a card
\* held it emits card.off, and the listeners of card.off run before the
\* card is cleared; without one it clears the card and calls disconnect at
\* once.
StatusRemoved(s) ==
    /\ StatusAllowed(s)
    /\ IsRemoval(s)
    /\ nStatus' = nStatus + 1
    /\ log' = log \o RemovalEmits(nStatus + 1)
    /\ IF RemovalEmits(nStatus + 1) # <<>>
       THEN /\ jobs' = <<Job("removing", s, nStatus + 1, TRUE, <<>>)>>
            /\ UNCHANGED <<readerState, card, ops>>
       ELSE /\ readerState' = s
            /\ card' = RemovalCard
            /\ ops' = ops \cup RemovalOps(nStatus + 1)
            /\ jobs' = jobs
    /\ UNCHANGED <<ended, connection, configVars, userTx, ios, insertions, nProviderErrors, keyVars>>

\* The removal branch after its emit returned: clear the card, and call
\* disconnect when a connection is held.
RemovalContinues ==
    /\ jobs # <<>>
    /\ Head(jobs).k = "removing"
    /\ jobs' = Tail(jobs)
    /\ readerState' = Head(jobs).ref
    /\ card' = RemovalCard
    /\ ops' = ops \cup RemovalOps(Head(jobs).st)
    /\ UNCHANGED <<ended, connection, configVars, log, userTx, ios, countVars, keyVars>>

\* Status handler, "card inserted": build the card and call connect (the
\* handler then awaits it).
StatusInserted(s, atr) ==
    /\ StatusAllowed(s)
    /\ IsInsertion(s)
    /\ atr \in Atrs
    /\ readerState' = s
    /\ nStatus' = nStatus + 1
    /\ insertions' = Append(insertions, nStatus + 1)
    /\ card' = NewCard(nIns + 1, atr)
    /\ ops' = ops \cup {Op("connect", "handler", 0, nStatus + 1, nIns + 1, <<>>)}
    /\ UNCHANGED <<ended, connection, configVars, jobs, log, userTx, ios, nProviderErrors, keyVars>>

\* Status handler, no change or a change of other bits: nothing happens.
StatusOther(s) ==
    /\ StatusAllowed(s)
    /\ ~IsRemoval(s)
    /\ ~IsInsertion(s)
    /\ readerState' = s
    /\ nStatus' = nStatus + 1
    /\ UNCHANGED <<ended, cardVars, configVars, ops, jobs, log, userTx, ios, insertions,
                   nProviderErrors, keyVars>>

\* ------------------------------------------------------ connect, disconnect
\* The provider's connect callback: on success the connection is stored; the
\* handler's continuation is queued either way.
ConnectDone(op, ok) ==
    /\ Macrotask
    /\ op \in ops
    /\ op.kind = "connect"
    /\ ops' = ops \ {op}
    /\ connection' = IF ok THEN op.ins ELSE connection
    /\ jobs' = <<Job("afterConnect", op.ins, op.st, ok, <<>>)>>
    /\ UNCHANGED <<providerVars, card, configVars, log, userTx, ios, countVars, keyVars>>

\* DisconnectedConnection with the connection kept.
DisconnectedConnection_Kept == connection

\* The connection after a successful provider disconnect.
DisconnectedConnection == 0

\* The provider's disconnect callback: on success the connection is cleared
\* and the handler ends; on failure the handler's catch is queued.
DisconnectDone(op, ok) ==
    /\ Macrotask
    /\ op \in ops
    /\ op.kind = "disconnect"
    /\ ops' = ops \ {op}
    /\ connection' = IF ok THEN DisconnectedConnection ELSE connection
    /\ jobs' = IF ok THEN jobs ELSE <<Job("afterDisconnect", op.ins, op.st, FALSE, <<>>)>>
    /\ UNCHANGED <<providerVars, card, configVars, log, userTx, ios, countVars, keyVars>>

\* The event name the handler's catch blocks pass to emit: the error object
\* itself (this.emit(err)), which no listener of 'error' receives.
HandlerCatchChannel(err) == err

\* catch (err) { this.emit(err) } of the removal branch.
AfterDisconnect ==
    /\ jobs # <<>>
    /\ Head(jobs).k = "afterDisconnect"
    /\ jobs' = Tail(jobs)
    /\ log' = Append(log, Entry(HandlerCatchChannel("DisconnectError"), NoCard,
                                Head(jobs).st, "disconnect_failed", <<>>))
    /\ UNCHANGED <<providerVars, cardVars, configVars, ops, userTx, ios, countVars, keyVars>>

\* ---------------------------------------------------------- the dispatcher
\* handle_Iso_14443_3_Tag up to its await: [emits, ops].
handle_Iso_14443_3_Tag(st) ==
    IF card = NoCard \/ connection = 0
    THEN [emits |-> <<>>, ops |-> {}]
    ELSE [emits |-> <<>>,
          ops |-> {Op("transmit", "getuid", 0, st, card.ins, GetUidPacket)}]

\* handle_Iso_14443_4_Tag up to its await: [emits, ops].
handle_Iso_14443_4_Tag(st) ==
    IF card = NoCard \/ connection = 0
    THEN [emits |-> <<>>, ops |-> {}]
    ELSE IF aid = "unset"
    THEN [emits |-> <<Entry("error", NoCard, st, "aid_not_set", <<>>)>>, ops |-> {}]
    ELSE IF aid = "fn_other"
    THEN [emits |-> <<Entry("error", NoCard, st, "aid_not_buffer", <<>>)>>, ops |-> {}]
    ELSE [emits |-> <<>>,
          ops |-> {Op("transmit", "select", 0, st, card.ins, SelectPacket(AidBytes))}]

handleTag(st) ==
    IF card = NoCard
    THEN [emits |-> <<>>, ops |-> {}]
    ELSE IF card.standard = TAG_ISO_14443_4
    THEN handle_Iso_14443_4_Tag(st)
    ELSE handle_Iso_14443_3_Tag(st)

\* InsertionContinues without the look at autoProcessing.
InsertionContinues_AlwaysDispatch(st, ok) ==
    IF ~ok
    THEN [emits |-> <<Entry(HandlerCatchChannel("ConnectError"), NoCard, st, "connect_failed", <<>>)>>,
          ops |-> {}]
    ELSE handleTag(st)

\* The insertion branch after `await this.connect()`: [emits, ops].
InsertionContinues(st, ok) ==
    IF ~ok
    THEN [emits |-> <<Entry(HandlerCatchChannel("ConnectError"), NoCard, st, "connect_failed", <<>>)>>,
          ops |-> {}]
    ELSE IF ~autoProcessing
    THEN [emits |-> <<Entry("card", card, st, "", <<>>)>>, ops |-> {}]
    ELSE handleTag(st)

AfterConnect ==
    /\ jobs # <<>>
    /\ Head(jobs).k = "afterConnect"
    /\ jobs' = Tail(jobs)
    /\ LET r == InsertionContinues(Head(jobs).st, Head(jobs).ok)
       IN  /\ log' = log \o r.emits
           /\ ops' = ops \cup r.ops
    /\ UNCHANGED <<providerVars, cardVars, configVars, userTx, ios, countVars, keyVars>>

\* The responses the provider may give to a transmit: success with the
\* payload the command asks for, a failure status, a response too short to
\* hold a status word.
Responses(op) ==
    CASE op.who = "getuid" -> { UidBytes(op.ins) \o SW_OK, SW_FAIL, <<144>> }
      [] op.who = "select" -> { <<17, 34>> \o SW_OK, SW_NOT_FOUND, SW_FAIL, <<144>> }
      [] OTHER -> { SW_OK, SW_FAIL }

\* The provider's transmit callback for a command of the dispatcher: the
\* transmit promise settles and the dispatcher's continuation is queued.
DispatcherTransmitDone(op, ok, resp) ==
    /\ Macrotask
    /\ op \in ops
    /\ op.kind = "transmit"
    /\ op.who \in {"getuid", "select"}
    /\ resp \in (IF ok THEN Responses(op) ELSE {<<>>})
    /\ ops' = ops \ {op}
    /\ jobs' = <<Job(op.who, op.ins, op.st, ok, resp)>>
    /\ log' = IF ok THEN Append(log, Entry("transmit.ok", NoCard, op.st, op.who, <<>>))
              ELSE log
    /\ UNCHANGED <<providerVars, cardVars, configVars, userTx, ios, countVars, keyVars>>

\* handle_Iso_14443_3_Tag after `await this.transmit(packet, 12)`:
\* [emits, card]. Assigning the uid to a card that is null throws a
\* TypeError inside the try, which the catch emits as a GetUIDError.
GetUidContinues(st, ok, resp) ==
    IF ~ok
    THEN [emits |-> <<Entry("error", NoCard, st, "failure", <<>>)>>, card |-> card]
    ELSE IF Len(resp) < 2
    THEN [emits |-> <<Entry("error", NoCard, st, "invalid_response", <<>>)>>, card |-> card]
    ELSE IF StatusWord(resp) # 36864
    THEN [emits |-> <<Entry("error", NoCard, st, "operation_failed", <<>>)>>, card |-> card]
    ELSE IF card = NoCard
    THEN [emits |-> <<Entry("error", NoCard, st, "type_error", <<>>)>>, card |-> card]
    ELSE LET c == [card EXCEPT !.uid = ToHex(Payload(resp))]
         IN  [emits |-> <<Entry("card", c, st, "", <<>>)>>, card |-> c]

AfterGetUid ==
    /\ jobs # <<>>
    /\ Head(jobs).k = "getuid"
    /\ jobs' = Tail(jobs)
    /\ LET r == GetUidContinues(Head(jobs).st, Head(jobs).ok, Head(jobs).resp)
       IN  /\ log' = log \o r.emits
           /\ card' = r.card
    /\ UNCHANGED <<providerVars, connection, configVars, ops, userTx, ios, countVars, keyVars>>

\* SelectContinues without the look at the status word.
SelectContinues_NoStatusCheck(st, ok, resp) ==
    IF ~ok
    THEN <<Entry("error", NoCard, st, "failure", <<>>)>>
    ELSE IF Len(resp) = 2 /\ StatusWord(resp) = 27266
    THEN <<Entry("error", NoCard, st, "not_found", <<>>)>>
    ELSE IF Len(resp) < 2
    THEN <<Entry("error", NoCard, st, "invalid_response", <<>>)>>
    ELSE <<Entry("card", card, st, "", Payload(resp))>>

\* handle_Iso_14443_4_Tag after `await this.transmit(packet, 40)`: the
\* entries it emits. The card event spreads this.card, null included.
SelectContinues(st, ok, resp) ==
    IF ~ok
    THEN <<Entry("error", NoCard, st, "failure", <<>>)>>
    ELSE IF Len(resp) = 2 /\ StatusWord(resp) = 27266
    THEN <<Entry("error", NoCard, st, "not_found", <<>>)>>
    ELSE IF Len(resp) < 2
    THEN <<Entry("error", NoCard, st, "invalid_response", <<>>)>>
    ELSE IF StatusWord(resp) # 36864
    THEN <<Entry("error", NoCard, st, "status_error", <<>>)>>
    ELSE <<Entry("card", card, st, "", Payload(resp))>>

AfterSelect ==
    /\ jobs # <<>>
    /\ Head(jobs).k = "select"
    /\ jobs' = Tail(jobs)
    /\ log' = log \o SelectContinues(Head(jobs).st, Head(jobs).ok, Head(jobs).resp)
    /\ UNCHANGED <<providerVars, cardVars, configVars, ops, userTx, ios, countVars, keyVars>>

\* ------------------------------------------------------------ the setter
\* this._aid after `reader.aid = value`: a function or a Buffer is stored as
\* it is, a string as the Buffer of its hex digits; for any other value the
\* setter throws and this._aid stays.
SetAidResult(value) ==
    CASE value \in {"fn_buffer", "fn_other", "buffer"} -> value
      [] value = "string" -> "buffer"
      [] OTHER -> aid

\* The setter throws for a value that is no function, Buffer or string.
SetAidThrows(value) == value \notin {"fn_buffer", "fn_other", "buffer", "string"}

\* reader.aid = value, by the user.
SetAid(value) ==
    /\ UserMayCall
    /\ nAidSets < MaxAidSets
    /\ value \in AidValues
    /\ nAidSets' = nAidSets + 1
    /\ aid' = SetAidResult(value)
    /\ aidThrew' = SetAidThrows(value)
    /\ UNCHANGED <<providerVars, cardVars, autoProcessing, ops, jobs, log, userTx, ios,
                   countVars, keyVars>>

\* ------------------------------------------------- provider error and end
\* this.reader.on('error'): the error is forwarded on the error event.
ProviderError ==
    /\ Macrotask
    /\ ~ended
    /\ nProviderErrors < MaxProviderErrors
    /\ nProviderErrors' = nProviderErrors + 1
    /\ log' = Append(log, Entry("error", NoCard, 0, "provider", <<>>))
    /\ UNCHANGED <<providerVars, cardVars, configVars, ops, jobs, userTx, ios, nStatus, insertions, keyVars>>

\* What the end handler emits.
EndEmits == <<Entry("end", NoCard, 0, "", <<>>)>>

\* this.reader.on('end'): the reader was removed. The provider signals it
\* once and delivers no status afterwards; the callbacks of calls already
\* made still run.
ReaderEnd ==
    /\ Macrotask
    /\ ~ended
    /\ ended' = TRUE
    /\ log' = log \o EndEmits
    /\ UNCHANGED <<readerState, cardVars, configVars, ops, jobs, userTx, ios, countVars, keyVars>>

\* ------------------------------------------------------- the user's calls
\* reader.transmit(data, n) called by the user.
UserTransmit ==
    /\ UserMayCall
    /\ Len(userTx) < MaxUserTx
    /\ LET id == Len(userTx) + 1
           t == transmit
       IN  /\ userTx' = Append(userTx,
                  [outcome |-> IF t = "forward" THEN "pending" ELSE "card_not_connected",
                   forwarded |-> t = "forward",
                   insAtCall |-> nIns,
                   logAtCall |-> Len(log),
                   stateAtCall |-> readerState])
           /\ ops' = IF t = "forward"
                     THEN ops \cup {Op("transmit", "user", id, 0, card.ins, <<0>>)}
                     ELSE ops
    /\ UNCHANGED <<providerVars, cardVars, configVars, jobs, log, ios, countVars, keyVars>>

\* The provider's transmit callback for a command of the user.
UserTransmitDone(op, ok) ==
    /\ Macrotask
    /\ op \in ops
    /\ op.kind = "transmit"
    /\ op.who = "user"
    /\ ops' = ops \ {op}
    /\ userTx' = [userTx EXCEPT ![op.ref].outcome = IF ok THEN "ok" ELSE "failure"]
    /\ log' = IF ok THEN Append(log, Entry("transmit.ok", NoCard, 0, "user", <<>>))
              ELSE log
    /\ UNCHANGED <<providerVars, cardVars, configVars, jobs, ios, countVars, keyVars>>

\* ---------------------------------------------------- the key-slot cache
MinOf(S) == CHOOSE n \in S : \A m \in S : n <= m

\* findKeyNumber(key) for a key string: the first slot whose key, as
\* lowercase hex, equals the lowercased string; -1 is undefined.
findKeyNumber(key) ==
    LET hit == { n \in Slots : /\ keyStorage[n] # <<>>
                               /\ toLowerCase(ToHex(keyStorage[n])) = toLowerCase(key) }
    IN  IF hit = {} THEN -1 ELSE MinOf(hit)

\* findKeyNumber(null): the first empty slot; -1 is undefined.
findFreeKeyNumber ==
    LET hit == { n \in Slots : keyStorage[n] = <<>> }
    IN  IF hit = {} THEN -1 ELSE MinOf(hit)

\* LoadTarget without the search for a free slot.
LoadTarget_AlwaysFirst == MinOf(Slots)

\* The slot authenticate loads a missing key into: the first slot, or, when
\* that is taken, a free slot if `if (freeNumber)` finds one (0 and undefined
\* are falsy).
LoadTarget ==
    LET first == MinOf(Slots)
        freeNumber == findFreeKeyNumber
    IN  IF keyStorage[first] # <<>> /\ freeNumber # -1 /\ freeNumber # 0
        THEN freeNumber
        ELSE first

\* The property name under which authenticate files the load of a key: the
\* key string as passed.
PendingKey(key) == key

\* response.readUInt16BE(0)
FirstWord(resp) == resp[1] * 256 + resp[2]

UserJobs == { i \in 1..Len(jobs) : jobs[i].k = "user" }

\* User code starts to run: as a macrotask when the job queue is empty, in a
\* listener of card.off, or as the job of its own at the head of the queue. It runs until the next
\* job or provider callback does.
UserBegins ==
    /\ Len(auths) < MaxAuth
    /\ IF UserMayCall
       THEN turn # "user" /\ jobs' = jobs
       ELSE Head(jobs).k = "user" /\ jobs' = Tail(jobs)
    /\ turn' = "user"
    /\ UNCHANGED <<providerVars, cardVars, configVars, ops, log, userTx, ios, countVars,
                   keyStorage, pendingLoadAuthenticationKey, loads, auths>>

\* A job of the user is queued: by user code that is running, or as the
\* user's reaction to the promise of an authenticate call at the moment a job
\* settles it.
ScheduleUser ==
    /\ turn \in {"user", "settled"}
    /\ Len(auths) + Cardinality(UserJobs) < MaxAuth
    /\ jobs' = Append(jobs, Job("user", 0, 0, TRUE, <<>>))
    /\ UNCHANGED <<providerVars, cardVars, configVars, ops, log, userTx, ios, countVars, keyVars>>

\* The Authenticate command of call a: [pc, packet, ops, jobs]. Without a
\* card transmit throws and the call fails at once; without a connection the
\* promise of transmit is rejected and the call fails in its next job.
AuthenticateTransmit(a, blockNumber, keyNumber) ==
    LET packet == AuthenticatePacket(blockNumber, KEY_TYPE_A, keyNumber)
        t == transmit
    IN  [pc |-> IF t = "throw" THEN "failed" ELSE "awaitTransmit",
         packet |-> IF t = "forward" THEN packet ELSE <<>>,
         ops |-> IF t = "forward"
                 THEN {Op("transmit", "authenticate", a, 0, card.ins, packet)}
                 ELSE {},
         jobs |-> IF t = "reject"
                  THEN <<Job("transmitted", a, 0, FALSE, <<>>)>>
                  ELSE <<>>]

\* The calls that are awaiting a key load.
AwaitingLoad == { x \in 1..Len(auths) : auths[x].pc = "awaitLoad" }

\* An authenticate call. load: the load it awaits (0: none); initiator: it
\* started that load; packet: the Authenticate command it transmitted;
\* deleted: the load whose entry its `delete` removed (0: none); during: the
\* calls that were awaiting a key load when this one started.
Auth(key, blockNumber, pc, keyNumber, load, initiator, packet) ==
    [key |-> key, blockNumber |-> blockNumber, pc |-> pc, keyNumber |-> keyNumber,
     load |-> load, initiator |-> initiator, packet |-> packet, deleted |-> 0,
     during |-> AwaitingLoad]

\* authenticate, the key is in a slot: the Authenticate command follows.
AuthenticateCached(key, blockNumber) ==
    /\ turn = "user"
    /\ Len(auths) < MaxAuth
    /\ findKeyNumber(key) # -1
    /\ LET a == Len(auths) + 1
           keyNumber == findKeyNumber(key)
           r == AuthenticateTransmit(a, blockNumber, keyNumber)
       IN  /\ auths' = Append(auths,
                  Auth(key, blockNumber, r.pc, keyNumber, 0, FALSE, r.packet))
           /\ ops' = ops \cup r.ops
           /\ jobs' = jobs \o r.jobs
    /\ UNCHANGED <<providerVars, cardVars, configVars, log, userTx, ios, countVars,
                   keyStorage, pendingLoadAuthenticationKey, loads, turn>>

\* StartsLoad without the look at pendingLoadAuthenticationKey.
StartsLoad_NoCoalescing(key) == findKeyNumber(key) = -1

\* Whether authenticate starts a load: the key is in no slot and no load is
\* filed for it.
StartsLoad(key) ==
    /\ findKeyNumber(key) = -1
    /\ pendingLoadAuthenticationKey[PendingKey(key)] = 0

\* authenticate, the key is in no slot and no load is filed for it:
\* loadAuthenticationKey is called up to its await, the load is filed, and
\* the call awaits it.
AuthenticateLoads(key, blockNumber) ==
    /\ turn = "user"
    /\ Len(auths) < MaxAuth
    /\ StartsLoad(key)
    /\ LET a == Len(auths) + 1
           l == Len(loads) + 1
           keyNumber == LoadTarget
           keyBytes == FromHex(key)
           packet == LoadKeyPacket(keyNumber, keyBytes)
           t == IF Len(keyBytes) # 6 THEN "throw" ELSE transmit
       IN  /\ loads' = Append(loads,
                  [key |-> key, keyNumber |-> keyNumber,
                   state |-> IF t = "throw" THEN "rejected" ELSE "pending",
                   awaiters |-> IF t = "throw" THEN <<>> ELSE <<a>>,
                   packet |-> IF t = "forward" THEN packet ELSE <<>>,
                   initiator |-> a])
           /\ pendingLoadAuthenticationKey' =
                  [pendingLoadAuthenticationKey EXCEPT ![PendingKey(key)] = l]
           /\ auths' = Append(auths, Auth(key, blockNumber, "awaitLoad", -1, l, TRUE, <<>>))
           /\ ops' = IF t = "forward"
                     THEN ops \cup {Op("transmit", "load", l, 0, card.ins, packet)}
                     ELSE ops
           /\ jobs' = jobs \o
                  (CASE t = "throw" -> <<Job("authenticate", a, 0, FALSE, <<>>)>>
                     [] t = "reject" -> <<Job("load", l, 0, FALSE, <<>>)>>
                     [] OTHER -> <<>>)
    /\ UNCHANGED <<providerVars, cardVars, configVars, log, userTx, ios, countVars, keyStorage,
                   turn>>

\* authenticate, the key is in no slot and a load is filed for it: the call
\* awaits that load.
AuthenticateJoins(key, blockNumber) ==
    /\ turn = "user"
    /\ Len(auths) < MaxAuth
    /\ findKeyNumber(key) = -1
    /\ ~StartsLoad(key)
    /\ LET a == Len(auths) + 1
           l == pendingLoadAuthenticationKey[PendingKey(key)]
           settled == loads[l].state # "pending"
       IN  /\ auths' = Append(auths, Auth(key, blockNumber, "awaitLoad", -1, l, FALSE, <<>>))
           /\ loads' = IF settled THEN loads
                       ELSE [loads EXCEPT ![l].awaiters = Append(@, a)]
           /\ jobs' = jobs \o
                  (IF settled THEN <<Job("authenticate", a, 0, FALSE, <<>>)>> ELSE <<>>)
    /\ UNCHANGED <<providerVars, cardVars, configVars, ops, log, userTx, ios, countVars,
                   keyStorage, pendingLoadAuthenticationKey, turn>>

\* The provider's transmit callback for a Load-Auth-Key command.
LoadTransmitDone(op, ok, resp) ==
    /\ Macrotask
    /\ op \in ops
    /\ op.kind = "transmit"
    /\ op.who = "load"
    /\ resp \in (IF ok THEN Responses(op) ELSE {<<>>})
    /\ ops' = ops \ {op}
    /\ jobs' = <<Job("load", op.ref, 0, ok, resp)>>
    /\ turn' = "idle"
    /\ UNCHANGED <<providerVars, cardVars, configVars, log, userTx, ios, countVars,
                   keyStorage, pendingLoadAuthenticationKey, loads, auths>>

\* LoadSucceeds without the look at the status word.
LoadSucceeds_AnyResponse(ok, resp) == ok

\* Whether loadAuthenticationKey succeeds on the outcome of its transmit.
LoadSucceeds(ok, resp) ==
    /\ ok
    /\ Len(resp) >= 2
    /\ FirstWord(resp) = 36864

\* The jobs of the calls that await a load, in the order they began to.
RECURSIVE AwaiterJobs(_)
AwaiterJobs(as) ==
    IF as = <<>> THEN <<>>
    ELSE <<Job("authenticate", Head(as), 0, TRUE, <<>>)>> \o AwaiterJobs(Tail(as))

\* loadAuthenticationKey after `await this.transmit(packet, 2)`: on status
\* 0x9000 the key is stored in the slot and the load resolves with the slot;
\* otherwise it rejects. The calls awaiting the load are queued.
AfterLoadTransmit ==
    /\ jobs # <<>>
    /\ Head(jobs).k = "load"
    /\ LET l == Head(jobs).ref
           good == LoadSucceeds(Head(jobs).ok, Head(jobs).resp)
       IN  /\ keyStorage' = IF good
                            THEN [keyStorage EXCEPT ![loads[l].keyNumber] = FromHex(loads[l].key)]
                            ELSE keyStorage
           /\ loads' = [loads EXCEPT ![l].state = IF good THEN "resolved" ELSE "rejected",
                                     ![l].awaiters = <<>>]
           /\ jobs' = Tail(jobs) \o AwaiterJobs(loads[l].awaiters)
    /\ turn' = "idle"
    /\ UNCHANGED <<providerVars, cardVars, configVars, ops, log, userTx, ios, countVars,
                   pendingLoadAuthenticationKey, auths>>

\* AfterFinally without the delete.
AfterFinally_NoDelete(key) == pendingLoadAuthenticationKey

\* The entries of pendingLoadAuthenticationKey after the finally block of a
\* call for `key`: delete this.pendingLoadAuthenticationKey[key].
AfterFinally(key) ==
    [pendingLoadAuthenticationKey EXCEPT ![PendingKey(key)] = 0]

\* authenticate after `await this.pendingLoadAuthenticationKey[key]`: the
\* finally block deletes the entry; a rejected load fails the call with
\* unable_to_load_key, a resolved one gives the slot of the Authenticate
\* command.
AfterLoad ==
    /\ jobs # <<>>
    /\ Head(jobs).k = "authenticate"
    /\ LET a == Head(jobs).ref
           l == auths[a].load
           key == auths[a].key
           r == AuthenticateTransmit(a, auths[a].blockNumber, loads[l].keyNumber)
       IN  /\ pendingLoadAuthenticationKey' = AfterFinally(key)
           /\ IF loads[l].state = "resolved"
              THEN /\ auths' = [auths EXCEPT ![a].pc = r.pc,
                                             ![a].keyNumber = loads[l].keyNumber,
                                             ![a].packet = r.packet,
                                             ![a].deleted =
                                                 pendingLoadAuthenticationKey[PendingKey(key)]]
                   /\ ops' = ops \cup r.ops
                   /\ jobs' = Tail(jobs) \o r.jobs
                   /\ turn' = IF r.pc = "failed" THEN "settled" ELSE "idle"
              ELSE /\ auths' = [auths EXCEPT ![a].pc = "unable_to_load_key",
                                             ![a].deleted =
                                                 pendingLoadAuthenticationKey[PendingKey(key)]]
                   /\ ops' = ops
                   /\ jobs' = Tail(jobs)
                   /\ turn' = "settled"
    /\ UNCHANGED <<providerVars, cardVars, configVars, log, userTx, ios, countVars,
                   keyStorage, loads>>

\* authenticate after `await this.transmit(packet, 2)` when transmit
\* rejected for want of a connection: the call fails.
AfterAuthenticateTransmit ==
    /\ jobs # <<>>
    /\ Head(jobs).k = "transmitted"
    /\ auths' = [auths EXCEPT ![Head(jobs).ref].pc = "failed"]
    /\ jobs' = Tail(jobs)
    /\ turn' = "settled"
    /\ UNCHANGED <<providerVars, cardVars, configVars, ops, log, userTx, ios, countVars,
                   keyStorage, pendingLoadAuthenticationKey, loads>>

\* The provider's transmit callback for an Authenticate command, and the
\* rest of authenticate: the call returns true on status 0x9000.
AuthenticateTransmitDone(op, ok, resp) ==
    /\ Macrotask
    /\ op \in ops
    /\ op.kind = "transmit"
    /\ op.who = "authenticate"
    /\ resp \in (IF ok THEN Responses(op) ELSE {<<>>})
    /\ ops' = ops \ {op}
    /\ auths' = [auths EXCEPT ![op.ref].pc =
                    IF ~ok THEN "failed"
                    ELSE IF FirstWord(resp) # 36864 THEN "operation_failed"
                    ELSE "ok"]
    /\ turn' = "settled"
    /\ UNCHANGED <<providerVars, cardVars, configVars, jobs, log, userTx, ios, countVars,
                   keyStorage, pendingLoadAuthenticationKey, loads>>

\* The states in which the user authenticates: a reader that holds a
\* connected card whose card event has been emitted (autoProcessing off), the
\* same reader after the card was removed and disconnected, or that reader,
\* a key loaded into slot 0 while the first card was held, after a second
\* card was inserted whose connect is still pending.
InitAuth ==
    /\ ended = FALSE
    /\ autoProcessing = FALSE
    /\ aid = "unset"
    /\ nAidSets = 0
    /\ aidThrew = FALSE
    /\ jobs = <<>>
    /\ userTx = <<>>
    /\ ios = <<>>
    /\ pendingLoadAuthenticationKey = [k \in KeyStrings |-> 0]
    /\ loads = <<>>
    /\ auths = <<>>
    /\ turn = "idle"
    /\ nProviderErrors = 0
    /\ \/ /\ readerState = SCARD_STATE_PRESENT
          /\ card = NewCard(1, Atr3)
          /\ connection = 1
          /\ ops = {}
          /\ nStatus = 1
          /\ insertions = <<1>>
          /\ keyStorage \in { [slot \in Slots |-> <<>>],
                              [slot \in Slots |-> IF slot = 0 THEN StoredKeyA
                                                               ELSE StoredKeyB] }
          /\ log = <<[chan |-> "card", snap |-> NewCard(1, Atr3), st |-> 1, held |-> 1,
                      code |-> "", data |-> <<>>]>>
       \/ /\ readerState = SCARD_STATE_EMPTY
          /\ card = NoCard
          /\ connection = 0
          /\ ops = {}
          /\ nStatus = 2
          /\ insertions = <<1>>
          /\ keyStorage = [slot \in Slots |-> <<>>]
          /\ log = <<[chan |-> "card", snap |-> NewCard(1, Atr3), st |-> 1, held |-> 1,
                      code |-> "", data |-> <<>>],
                     [chan |-> "card.off", snap |-> NewCard(1, Atr3), st |-> 2, held |-> 1,
                      code |-> "", data |-> <<>>]>>
       \/ /\ readerState = SCARD_STATE_PRESENT
          /\ card = NewCard(2, Atr3)
          /\ connection = 0
          /\ ops = {Op("connect", "handler", 0, 3, 2, <<>>)}
          /\ nStatus = 3
          /\ insertions = <<1, 3>>
          /\ keyStorage = [slot \in Slots |-> IF slot = 0 THEN FromHex(KeyLower) ELSE <<>>]
          /\ log = <<[chan |-> "card", snap |-> NewCard(1, Atr3), st |-> 1, held |-> 1,
                      code |-> "", data |-> <<>>],
                     [chan |-> "card.off", snap |-> NewCard(1, Atr3), st |-> 2, held |-> 1,
                      code |-> "", data |-> <<>>]>>

NextAuth ==
    \/ UserBegins
    \/ ScheduleUser
    \/ \E key \in KeyStrings : AuthenticateCached(key, BlockOf(Len(auths) + 1))
    \/ \E key \in KeyStrings : AuthenticateLoads(key, BlockOf(Len(auths) + 1))
    \/ \E key \in KeyStrings : AuthenticateJoins(key, BlockOf(Len(auths) + 1))
    \/ \E op \in ops, ok \in BOOLEAN :
          \E resp \in {<<>>} \cup Responses(op) : LoadTransmitDone(op, ok, resp)
    \/ AfterLoadTransmit
    \/ AfterLoad
    \/ AfterAuthenticateTransmit
    \/ \E op \in ops, ok \in BOOLEAN :
          \E resp \in {<<>>} \cup Responses(op) : AuthenticateTransmitDone(op, ok, resp)

SpecAuth == InitAuth /\ [][NextAuth]_vars

\* The user authenticates, in at most MaxKeyCalls calls, while cards come
\* and go: the statuses and the connects and disconnects they cause,
\* interleaved with the calls.
NextKeys ==
    \/ Len(auths) < MaxKeyCalls /\ UserBegins
    \/ Len(auths) + Cardinality(UserJobs) < MaxKeyCalls /\ ScheduleUser
    \/ /\ Len(auths) < MaxKeyCalls
       /\ \E key \in KeyStrings :
              \/ AuthenticateCached(key, BlockOf(Len(auths) + 1))
              \/ AuthenticateLoads(key, BlockOf(Len(auths) + 1))
              \/ AuthenticateJoins(key, BlockOf(Len(auths) + 1))
    \/ \E op \in ops, ok \in BOOLEAN :
          \E resp \in {<<>>} \cup Responses(op) :
              \/ LoadTransmitDone(op, ok, resp)
              \/ AuthenticateTransmitDone(op, ok, resp)
    \/ AfterLoadTransmit
    \/ AfterLoad
    \/ AfterAuthenticateTransmit
    \/ \E s \in StatusStates : StatusRemoved(s)
    \/ RemovalContinues
    \/ \E s \in StatusStates, atr \in Atrs : StatusInserted(s, atr)
    \/ \E op \in ops, ok \in BOOLEAN : ConnectDone(op, ok)
    \/ \E op \in ops, ok \in BOOLEAN : DisconnectDone(op, ok)
    \/ AfterConnect
    \/ AfterDisconnect

SpecKeys == InitAuth /\ [][NextKeys]_vars


NextCore ==
    \/ \E s \in StatusStates : StatusRemoved(s)
    \/ RemovalContinues
    \/ \E s \in StatusStates, atr \in Atrs : StatusInserted(s, atr)
    \/ \E s \in StatusStates : StatusOther(s)
    \/ \E op \in ops, ok \in BOOLEAN : ConnectDone(op, ok)
    \/ \E op \in ops, ok \in BOOLEAN : DisconnectDone(op, ok)
    \/ AfterConnect
    \/ AfterDisconnect
    \/ \E op \in ops, ok \in BOOLEAN :
          \E resp \in {<<>>} \cup Responses(op) : DispatcherTransmitDone(op, ok, resp)
    \/ AfterGetUid
    \/ AfterSelect

\* The reader's life: statuses, the dispatcher, provider errors and the end.
Next ==
    \/ NextCore
    \/ \E value \in AidValues : SetAid(value)
    \/ ProviderError
    \/ ReaderEnd

Spec == Init /\ [][Next]_vars

\* The reader with a user who transmits, and who sets a Buffer as the AID.
NextUser ==
    \/ NextCore
    \/ SetAid("buffer")
    \/ UserTransmit
    \/ \E op \in ops, ok \in BOOLEAN : UserTransmitDone(op, ok)

SpecUser == Init /\ [][NextUser]_vars

\* ------------------------------------------------ read, write and control
\* control asking for a card as transmit does.
control_NeedsCard == IF card = NoCard \/ connection = 0 THEN "throw" ELSE "forward"

\* Reader.control at the time of the call: it throws without a connection
\* and otherwise calls the provider; the card is not looked at.
control == IF connection = 0 THEN "throw" ELSE "forward"

\* The byte the card holds at a byte address.
CardByte(addr) == (7 * addr + 1) % 256

\* The bytes a Read-Binary of `size` bytes at block `block` asks for.
CardBytes(block, blockSize, size) ==
    [k \in 1..size |-> CardByte(block * blockSize + k - 1)]

\* read(blockNumber, length, blockSize, packetSize) as called by the user.
ReadArgs ==
    { [block |-> 0, length |-> 8, blockSize |-> 4, packetSize |-> 4],
      [block |-> 1, length |-> 5, blockSize |-> 4, packetSize |-> 2],
      [block |-> 2, length |-> 3, blockSize |-> 4, packetSize |-> 16] }

\* write(blockNumber, data, blockSize) as called by the user.
WriteArgs ==
    { [block |-> 4, data |-> <<11, 12, 13, 14>>, blockSize |-> 2],
      [block |-> 5, data |-> <<21, 22>>, blockSize |-> 2],
      [block |-> 6, data |-> <<31, 32, 33>>, blockSize |-> 2],
      [block |-> 7, data |-> <<41>>, blockSize |-> 2] }

\* Math.ceil(length / packetSize)
ReadCount(length, packetSize) == (length + packetSize - 1) \div packetSize

\* The block of sub-read i (from 0) as it reaches the command: the sum
\* blockNumber + (i * packetSize) / blockSize, cut to an integer by the
\* bit operations that build the packet.
SubBlock(block, i, packetSize, blockSize) == block + ((i * packetSize) \div blockSize)

\* SubSize with every sub-read asking for a whole packet.
SubSize_Whole(i, length, packetSize) == packetSize

\* The size of sub-read i (from 0).
SubSize(i, length, packetSize) ==
    IF (i + 1) * packetSize < length THEN packetSize ELSE length - i * packetSize

\* The Read-Binary command.
ReadPacket(block, length) ==
    <<255, 176, (block \div 256) % 256, block % 256, length % 256>>

\* The Update-Binary command.
WritePacket(block, blockSize, data) == <<255, 214, 0, block, blockSize>> \o data

\* The commands of read(a): one per sub-read when length > packetSize, else
\* one.
ReadPackets(a) ==
    IF a.length > a.packetSize
    THEN [i \in 1..ReadCount(a.length, a.packetSize) |->
             ReadPacket(SubBlock(a.block, i - 1, a.packetSize, a.blockSize),
                        SubSize(i - 1, a.length, a.packetSize))]
    ELSE <<ReadPacket(a.block, a.length)>>

\* data.length < blockSize || data.length % blockSize !== 0
\* A length check that only rejects data shorter than one block.
InvalidDataLength_ShortOnly(a) == Len(a.data) < a.blockSize

InvalidDataLength(a) ==
    Len(a.data) < a.blockSize \/ Len(a.data) % a.blockSize # 0

\* The commands of write(a) for data of a valid length: one per block.
WritePackets(a) ==
    [i \in 1..(Len(a.data) \div a.blockSize) |->
        WritePacket(a.block + i - 1, a.blockSize,
                    SubSeq(a.data, (i - 1) * a.blockSize + 1, i * a.blockSize))]

RECURSIVE Flatten(_)
Flatten(seqs) == IF seqs = <<>> THEN <<>> ELSE Head(seqs) \o Flatten(Tail(seqs))

\* Buffer.concat(list, totalLength): the buffers in list order, cut or
\* zero-filled to totalLength bytes.
Concat(list, totalLength) ==
    LET all == Flatten(list)
    IN  [k \in 1..totalLength |-> IF k <= Len(all) THEN all[k] ELSE 0]

\* Concat over the sub-results in the order they completed.
InOrder_Completion(io) == [k \in 1..Len(io.order) |-> io.values[io.order[k]].bytes]

\* The list Promise.all resolves with: the sub-results in request order.
InOrder(io) == [k \in 1..Len(io.values) |-> io.values[k].bytes]

\* The outcome of one sub-read or sub-write on the outcome of its transmit:
\* [st, code, bytes].
SubOutcome(kind, ok, resp) ==
    IF ~ok
    THEN [st |-> "err", code |-> "transmit_failure", bytes |-> <<>>]
    ELSE IF Len(resp) < 2
    THEN [st |-> "err", code |-> "invalid_response_length", bytes |-> <<>>]
    ELSE IF StatusWord(resp) # 36864
    THEN [st |-> "err", code |-> "status_code", bytes |-> <<>>]
    ELSE [st |-> "ok", code |-> "",
          bytes |-> IF kind = "read" THEN Payload(resp) ELSE <<>>]

PendingSub == [st |-> "pending", code |-> "", bytes |-> <<>>]

\* A call of read, write or control. packets: the commands passed to
\* transmit (or control), in order; forwarded: they reached the provider;
\* values: the sub-results by request; order: the requests in the order they
\* completed; outcome: pending, ok or the code of the error; failedAt: the
\* request whose error the call reports; result: the bytes returned.
Io(kind, args, packets, forwarded, outcome) ==
    [kind |-> kind, args |-> args, packets |-> packets, forwarded |-> forwarded,
     hadCard |-> card # NoCard, hadConnection |-> connection # 0,
     values |-> [i \in 1..Len(packets) |-> PendingSub], order |-> <<>>,
     outcome |-> outcome, failedAt |-> 0, result |-> <<>>]

\* The provider calls of a user call: one transmit per packet.
IoOps(id, packets) ==
    { Op("transmit", "io", 10 * id + i, 0, card.ins, packets[i]) : i \in 1..Len(packets) }

\* The jobs after a call of read or write whose transmit returned a rejected
\* promise: the call awaits that promise, so its catch block, and with it
\* the rejection of the call, runs as a later job.
IoJobs(id, t, invalid) ==
    IF t = "reject" /\ ~invalid
    THEN Append(jobs, Job("ioRejects", id, 0, FALSE, <<>>))
    ELSE jobs

\* reader.read(...) called by the user: without a card it fails at once;
\* otherwise every sub-read is started, each passing its command to
\* transmit, before anything is awaited, and the call stays pending.
UserRead(a) ==
    /\ UserMayCall
    /\ Len(ios) < MaxIo
    /\ a \in ReadArgs
    /\ LET id == Len(ios) + 1
           t == transmit
           packets == IF t = "throw" THEN <<>> ELSE ReadPackets(a)
       IN  /\ ios' = Append(ios,
                  Io("read", [block |-> a.block, length |-> a.length, blockSize |-> a.blockSize,
                              packetSize |-> a.packetSize, data |-> <<>>],
                     packets, t = "forward",
                     IF t = "throw" THEN "card_not_connected" ELSE "pending"))
           /\ ops' = IF t = "forward" THEN ops \cup IoOps(id, packets) ELSE ops
           /\ jobs' = IoJobs(id, t, FALSE)
    /\ UNCHANGED <<providerVars, cardVars, configVars, log, userTx, countVars, keyVars>>

\* reader.write(...) called by the user: without a card, or with data that
\* is not a whole number of blocks, it fails at once; otherwise every
\* sub-write is started before anything is awaited, and the call stays
\* pending.
UserWrite(a) ==
    /\ UserMayCall
    /\ Len(ios) < MaxIo
    /\ a \in WriteArgs
    /\ LET id == Len(ios) + 1
           t == transmit
           invalid == InvalidDataLength(a)
           packets == IF t = "throw" \/ invalid THEN <<>> ELSE WritePackets(a)
       IN  /\ ios' = Append(ios,
                  Io("write", [block |-> a.block, length |-> Len(a.data),
                               blockSize |-> a.blockSize, packetSize |-> 0, data |-> a.data],
                     packets, t = "forward" /\ ~invalid,
                     CASE t = "throw" -> "card_not_connected"
                       [] invalid -> "invalid_data_length"
                       [] OTHER -> "pending"))
           /\ ops' = IF t = "forward" /\ ~invalid THEN ops \cup IoOps(id, packets) ELSE ops
           /\ jobs' = IoJobs(id, t, invalid)
    /\ UNCHANGED <<providerVars, cardVars, configVars, log, userTx, countVars, keyVars>>

\* The call resumes after its await of the rejected promise of transmit: the
\* catch block throws the error of read or write, and the call rejects.
IoRejects ==
    /\ jobs # <<>>
    /\ Head(jobs).k = "ioRejects"
    /\ jobs' = Tail(jobs)
    /\ ios' = [ios EXCEPT ![Head(jobs).ref].outcome = "transmit_card_not_connected"]
    /\ UNCHANGED <<providerVars, cardVars, configVars, ops, log, userTx, countVars, keyVars>>

\* The call after one of its sub-requests completed: Promise.all rejects
\* with the first rejection it sees and resolves when every sub-request has
\* resolved; a read then returns the sub-results joined to `length` bytes.
Completed(io, i, sub) ==
    LET values == [io.values EXCEPT ![i] = sub]
        after == [io EXCEPT !.values = values, !.order = Append(io.order, i)]
        allOk == \A k \in 1..Len(values) : values[k].st = "ok"
    IN  IF io.outcome # "pending" THEN after
        ELSE IF sub.st = "err"
        THEN [after EXCEPT !.outcome = sub.code, !.failedAt = i]
        ELSE IF allOk
        THEN [after EXCEPT !.outcome = "ok",
                           !.result = IF io.kind = "read"
                                      THEN IF Len(values) > 1
                                           THEN Concat(InOrder(after), io.args.length)
                                           ELSE values[1].bytes
                                      ELSE <<>>]
        ELSE after

\* The responses of the card to a command of read or write.
IoResponses(op) ==
    IF op.packet[2] = 176
    THEN LET block == op.packet[3] * 256 + op.packet[4]
             size == op.packet[5]
             id == op.ref \div 10
             full == CardBytes(block, ios[id].args.blockSize, size)
         IN  { full \o SW_OK, SubSeq(full, 1, size - 1) \o SW_OK, SW_FAIL, <<144>> }
    ELSE { SW_OK, SW_FAIL, <<144>> }

\* The provider's transmit callback for a command of read or write.
IoTransmitDone(op, ok, resp) ==
    /\ Macrotask
    /\ op \in ops
    /\ op.kind = "transmit"
    /\ op.who = "io"
    /\ resp \in (IF ok THEN IoResponses(op) ELSE {<<>>})
    /\ ops' = ops \ {op}
    /\ LET id == op.ref \div 10
           i == op.ref % 10
       IN  ios' = [ios EXCEPT ![id] = Completed(ios[id], i, SubOutcome(ios[id].kind, ok, resp))]
    /\ UNCHANGED <<providerVars, cardVars, configVars, jobs, log, userTx, countVars, keyVars>>

\* reader.control(data, n) called by the user.
UserControl ==
    /\ UserMayCall
    /\ Len(ios) < MaxIo
    /\ LET id == Len(ios) + 1
           t == control
       IN  /\ ios' = Append(ios,
                  Io("control", [block |-> 0, length |-> 0, blockSize |-> 0,
                                 packetSize |-> 0, data |-> <<>>],
                     <<<<224, 0>>>>, t = "forward",
                     IF t = "forward" THEN "pending" ELSE "not_connected"))
           /\ ops' = IF t = "forward"
                     THEN ops \cup {Op("control", "user", id, 0, card.ins, <<224, 0>>)}
                     ELSE ops
    /\ UNCHANGED <<providerVars, cardVars, configVars, jobs, log, userTx, countVars, keyVars>>

\* The provider's control callback.
UserControlDone(op, ok) ==
    /\ Macrotask
    /\ op \in ops
    /\ op.kind = "control"
    /\ ops' = ops \ {op}
    /\ ios' = [ios EXCEPT ![op.ref].outcome = IF ok THEN "ok" ELSE "failure",
                          ![op.ref].order = <<1>>]
    /\ UNCHANGED <<providerVars, cardVars, configVars, jobs, log, userTx, countVars, keyVars>>

\* The states in which the user reads, writes and controls: a reader with a
\* connected card whose card event has been emitted (autoProcessing off); a
\* reader whose card has been inserted and whose connect is pending; that
\* reader with the card removed and the disconnect pending; and with the
\* disconnect done.
InitIO ==
    /\ ended = FALSE
    /\ autoProcessing = FALSE
    /\ aid = "unset"
    /\ nAidSets = 0
    /\ aidThrew = FALSE
    /\ jobs = <<>>
    /\ userTx = <<>>
    /\ ios = <<>>
    /\ keyStorage = [slot \in Slots |-> <<>>]
    /\ pendingLoadAuthenticationKey = [k \in KeyStrings |-> 0]
    /\ loads = <<>>
    /\ auths = <<>>
    /\ turn = "idle"
    /\ nProviderErrors = 0
    /\ insertions = <<1>>
    /\ \/ /\ readerState = SCARD_STATE_PRESENT
          /\ card = NewCard(1, Atr3)
          /\ connection = 1
          /\ ops = {}
          /\ nStatus = 1
          /\ log = <<[chan |-> "card", snap |-> NewCard(1, Atr3), st |-> 1, held |-> 1,
                      code |-> "", data |-> <<>>]>>
       \/ /\ readerState = SCARD_STATE_PRESENT
          /\ card = NewCard(1, Atr3)
          /\ connection = 0
          /\ ops = {Op("connect", "handler", 0, 1, 1, <<>>)}
          /\ nStatus = 1
          /\ log = <<>>
       \/ /\ readerState = SCARD_STATE_EMPTY
          /\ card = NoCard
          /\ connection = 1
          /\ ops = {Op("disconnect", "handler", 0, 2, 1, <<>>)}
          /\ nStatus = 2
          /\ log = <<[chan |-> "card", snap |-> NewCard(1, Atr3), st |-> 1, held |-> 1,
                      code |-> "", data |-> <<>>],
                     [chan |-> "card.off", snap |-> NewCard(1, Atr3), st |-> 2, held |-> 1,
                      code |-> "", data |-> <<>>]>>
       \/ /\ readerState = SCARD_STATE_EMPTY
          /\ card = NoCard
          /\ connection = 0
          /\ ops = {}
          /\ nStatus = 2
          /\ log = <<[chan |-> "card", snap |-> NewCard(1, Atr3), st |-> 1, held |-> 1,
                      code |-> "", data |-> <<>>],
                     [chan |-> "card.off", snap |-> NewCard(1, Atr3), st |-> 2, held |-> 1,
                      code |-> "", data |-> <<>>]>>

NextIO ==
    \/ UserTransmit
    \/ \E op \in ops, ok \in BOOLEAN : UserTransmitDone(op, ok)
    \/ \E a \in ReadArgs : UserRead(a)
    \/ \E a \in WriteArgs : UserWrite(a)
    \/ IoRejects
    \/ UserControl
    \/ \E op \in ops, ok \in BOOLEAN : UserControlDone(op, ok)
    \/ \E op \in ops, ok \in BOOLEAN :
          \E resp \in {<<>>} \cup (IF op.who = "io" THEN IoResponses(op) ELSE {}) :
              IoTransmitDone(op, ok, resp)
    \/ \E s \in StatusStates : StatusRemoved(s)
    \/ RemovalContinues
    \/ \E op \in ops, ok \in BOOLEAN : DisconnectDone(op, ok)
    \/ AfterDisconnect

SpecIO == InitIO /\ [][NextIO]_vars

\* ---------------------------------------------------------------- claims
Settled(a) == auths[a].pc \notin {"awaitLoad", "awaitTransmit"}

\* The slot index byte of an Authenticate command.
SlotByte(packet) == packet[10]

\* Calls a and b are for the same key string, b started while a was
\* awaiting its load, b found the key in no slot either, and the load each
\* awaited was answered 0x9000.
ConcurrentPair(a, b) ==
    /\ a \in auths[b].during
    /\ auths[a].key = auths[b].key
    /\ auths[b].load # 0
    /\ loads[auths[a].load].state = "resolved"
    /\ loads[auths[b].load].state = "resolved"

\* C1: two concurrent authenticate calls for the same key string, started
\* while the key is in no slot and answered 0x9000 by the provider, await the
\* same single load, name the same slot in their Authenticate commands, and
\* the entry of that load is gone once both have settled (a later call may
\* have filed a new load under the key by then).
C1_OneLoadSameSlot ==
    \A a, b \in 1..Len(auths) :
        ConcurrentPair(a, b) =>
            /\ auths[a].load = auths[b].load
            /\ loads[auths[a].load].packet # <<>>
            /\ (auths[a].packet # <<>> /\ auths[b].packet # <<>>) =>
                   /\ SlotByte(auths[a].packet) = SlotByte(auths[b].packet)
                   /\ SlotByte(auths[a].packet) = loads[auths[a].load].keyNumber
            /\ (Settled(a) /\ Settled(b)) =>
                   pendingLoadAuthenticationKey[auths[a].key] # auths[a].load

C1_Witness ==
    \E a, b \in 1..Len(auths) :
        /\ ConcurrentPair(a, b)
        /\ auths[a].blockNumber # auths[b].blockNumber
        /\ auths[a].pc = "ok"
        /\ auths[b].pc = "ok"
        /\ \A l \in 1..Len(loads) : loads[l].key = auths[a].key => l = auths[a].load

\* A load in flight: its Load-Auth-Key command was handed to the provider
\* and the load has not settled.
InFlight(l) == loads[l].state = "pending" /\ loads[l].packet # <<>>

\* C2: at any time at most one load of a given key string is in flight,
\* however many authenticate calls overlap and whatever failed before.
C2_OneLoadInFlight ==
    \A l1, l2 \in 1..Len(loads) :
        (InFlight(l1) /\ InFlight(l2) /\ loads[l1].key = loads[l2].key) => l1 = l2

C2_Witness ==
    \E l1, l2 \in 1..Len(loads) :
        /\ l1 < l2
        /\ loads[l1].key = loads[l2].key
        /\ loads[l1].state = "rejected"
        /\ loads[l1].packet # <<>>
        /\ InFlight(l2)
        /\ \E a \in 1..Len(auths) : auths[a].load = l2 /\ ~auths[a].initiator

\* C3: concurrent authenticate calls whose key strings are the same six
\* bytes in different letter case share one pending entry and one load.
C3_CaseInsensitiveEntry ==
    \A a, b \in 1..Len(auths) :
        ( /\ a \in auths[b].during
          /\ toLowerCase(auths[a].key) = toLowerCase(auths[b].key)
          /\ auths[b].load # 0 )
        => auths[a].load = auths[b].load

\* C4: only the call that started a load removes an entry of
\* pendingLoadAuthenticationKey, and the entry it removes is that load's.
C4_OnlyInitiatorDeletes ==
    \A a \in 1..Len(auths) :
        auths[a].deleted # 0 =>
            /\ auths[a].initiator
            /\ auths[a].deleted = auths[a].load

\* A call has gone past its await of a load.
PastLoad(a) == auths[a].load # 0 /\ auths[a].pc # "awaitLoad"

\* C5: when a load fails, every call that awaited it fails with
\* unable_to_load_key and transmits no Authenticate command, the failing
\* load leaves keyStorage as it was, and its entry is gone as soon as the
\* call that started it has gone on, so that a later call starts a new load.
C5_FailedLoadState ==
    /\ \A a \in 1..Len(auths) :
           (PastLoad(a) /\ loads[auths[a].load].state = "rejected") =>
               /\ auths[a].pc = "unable_to_load_key"
               /\ auths[a].packet = <<>>
    /\ \A l \in 1..Len(loads) :
           (loads[l].state = "rejected" /\ PastLoad(loads[l].initiator)) =>
               \A k \in KeyStrings : pendingLoadAuthenticationKey[k] # l

\* A step in which a load is rejected.
LoadRejects ==
    \E l \in 1..Len(loads) : loads[l].state = "pending" /\ loads'[l].state = "rejected"

C5_FailedLoad ==
    /\ []C5_FailedLoadState
    /\ [][LoadRejects => keyStorage' = keyStorage]_vars

C5_Witness ==
    \E l1, l2 \in 1..Len(loads), a, b \in 1..Len(auths) :
        /\ l1 < l2
        /\ loads[l1].key = loads[l2].key
        /\ loads[l1].state = "rejected"
        /\ loads[l1].packet # <<>>
        /\ a # b
        /\ auths[a].load = l1
        /\ auths[b].load = l1
        /\ auths[a].pc = "unable_to_load_key"
        /\ auths[b].pc = "unable_to_load_key"

\* The events a listener can receive.
IsEvent(e) == e.chan \in {"card", "card.off", "error", "end"}

\* At entry i, card.off is the latest of the card and card.off events.
OffIsLatest(i) ==
    \E j \in 1..(i - 1) :
        /\ log[j].chan = "card.off"
        /\ \A k \in (j + 1)..(i - 1) : log[k].chan # "card"

\* C6, as claimed: between a card.off event and the next card event no
\* transmit call succeeds.
C6_NoSuccessUntilCard ==
    \A i \in 1..Len(log) : log[i].chan = "transmit.ok" => ~OffIsLatest(i)

\* The card of the latest insertion had been removed, with its card.off
\* emitted, when the user's call t was made.
CalledAfterOff(t) ==
    \E j \in 1..userTx[t].logAtCall :
        /\ log[j].chan = "card.off"
        /\ log[j].snap.ins = userTx[t].insAtCall

\* The user's call t was made with the reader reported empty: after the
\* removal branch cleared the card, not from a listener of card.off, which
\* runs before that with the reader's previous state.
CalledWhenEmpty(t) == BitAnd(userTx[t].stateAtCall, SCARD_STATE_EMPTY) # 0

\* C6, amended: a transmit call made after a card.off event, once the
\* listeners of card.off have returned and the card is cleared, and before
\* the next insertion status is handled fails with card_not_connected and
\* nothing is handed to the provider.
C6_FailsUntilInsertion ==
    \A t \in 1..Len(userTx) :
        (CalledAfterOff(t) /\ CalledWhenEmpty(t)) =>
            /\ userTx[t].outcome = "card_not_connected"
            /\ ~userTx[t].forwarded

C6_Witness ==
    \E t \in 1..Len(userTx) :
        /\ CalledAfterOff(t)
        /\ CalledWhenEmpty(t)
        /\ userTx[t].outcome = "card_not_connected"
        /\ connection # 0
        /\ nIns = 2

\* The insertion whose handler emitted entry e (0: none).
CauseIns(e) ==
    IF \E n \in 1..nIns : insertions[n] = e.st
    THEN CHOOSE n \in 1..nIns : insertions[n] = e.st
    ELSE 0

\* C7: a card event of insertion N+1 (emitted by its handler, or carrying its
\* card) comes after the card.off event of the card of insertion N.
C7_OffBeforeNextCard ==
    \A i \in 1..Len(log) :
        log[i].chan = "card" =>
            \A n \in {CauseIns(log[i]), log[i].snap.ins} :
                n >= 2 =>
                    \E j \in 1..(i - 1) :
                        log[j].chan = "card.off" /\ log[j].snap.ins = n - 1

C7_Witness ==
    \E i, j, k \in 1..Len(log) :
        /\ i < j
        /\ j < k
        /\ log[i].chan = "card"
        /\ log[i].snap.ins = 1
        /\ log[j].chan = "card.off"
        /\ log[j].snap.ins = 1
        /\ log[k].chan = "card"
        /\ log[k].snap.ins = 2
        /\ CauseIns(log[k]) = 2

\* C8: the card or error event of an insertion status is not emitted after
\* the card.off event of a later removal status.
C8_EventsInStatusOrder ==
    \A i, j \in 1..Len(log) :
        ( /\ i < j
          /\ log[i].chan = "card.off"
          /\ log[j].chan \in {"card", "error"}
          /\ log[j].st # 0 )
        => log[i].st <= log[j].st

\* C9: a connect or disconnect failure inside the status handler is emitted
\* on the error event.
C9_HandlerFailureOnError ==
    \A i \in 1..Len(log) :
        log[i].code \in {"connect_failed", "disconnect_failed"} => log[i].chan = "error"

\* C10: end is emitted once, and no card, card.off or error event follows it.
C10_NothingAfterEnd ==
    \A i, j \in 1..Len(log) :
        (i < j /\ log[i].chan = "end") => ~IsEvent(log[j])

\* A step of the removal branch taken while a card is held and a connection
\* is open.
RemovalFromConnected ==
    /\ nStatus' = nStatus + 1
    /\ card # NoCard
    /\ connection # 0
    /\ \/ IsRemoval(readerState')
       \/ (log' # log /\ log'[Len(log')].chan = "card.off")
       \/ (card' = NoCard)

\* The step in which the removal branch goes on after its emit returned.
RemovalGoesOn ==
    /\ jobs # <<>>
    /\ Head(jobs).k = "removing"
    /\ jobs' = Tail(jobs)

\* A step in which a provider disconnect completes successfully.
DisconnectSucceeds ==
    /\ \E op \in ops : op.kind = "disconnect" /\ op \notin ops'
    /\ jobs' = <<>>

\* The user's call t was made after a removal status was handled and before
\* the next insertion status.
CalledWhileRemoved(t) ==
    /\ userTx[t].insAtCall >= 1
    /\ BitAnd(userTx[t].stateAtCall, SCARD_STATE_EMPTY) # 0

C11_TransmitFailsWhileRemoved ==
    \A t \in 1..Len(userTx) :
        CalledWhileRemoved(t) =>
            /\ userTx[t].outcome = "card_not_connected"
            /\ ~userTx[t].forwarded

\* C11: a removal status received while a card is held and a connection is
\* open emits card.off with a snapshot of that card, clears the card and
\* calls provider disconnect; a disconnect that succeeds clears the
\* connection; and a transmit called after the removal was handled and
\* before a new insertion fails with card_not_connected.
C11_RemovalFromConnected ==
    /\ [][RemovalFromConnected =>
            /\ log' = Append(log, [chan |-> "card.off", snap |-> card, st |-> nStatus',
                                   held |-> card.ins, code |-> "", data |-> <<>>])
            /\ jobs' # <<>>
            /\ jobs'[1].k = "removing"
            /\ connection' = connection]_vars
    /\ [][RemovalGoesOn =>
            /\ log' = log
            /\ log[Len(log)].chan = "card.off"
            /\ log[Len(log)].snap = card
            /\ card' = NoCard
            /\ connection' = connection
            /\ connection # 0 => \E op \in ops' \ ops : op.kind = "disconnect"]_vars
    /\ [][DisconnectSucceeds => connection' = 0]_vars
    /\ []C11_TransmitFailsWhileRemoved

C11_Witness ==
    /\ connection = 0
    /\ card = NoCard
    /\ \E i \in 1..Len(log) :
          /\ log[i].chan = "card.off"
          /\ log[i].snap.uid # <<>>
          /\ \E j \in 1..(i - 1) : log[j].chan = "card" /\ log[j].snap = log[i].snap
    /\ \E t \in 1..Len(userTx) :
          /\ CalledWhileRemoved(t)
          /\ userTx[t].outcome = "card_not_connected"

\* A step in which the user calls transmit; the record of the call.
TransmitCalled == Len(userTx') = Len(userTx) + 1
NewTx == userTx'[Len(userTx')]

\* A step in which the user calls control; the record of the call.
ControlCalled == Len(ios') = Len(ios) + 1 /\ ios'[Len(ios')].kind = "control"
NewIo == ios'[Len(ios')]

\* C12: transmit hands its command to the provider exactly when a card and a
\* connection are both present at the call, and otherwise fails with
\* card_not_connected without a provider call; control hands its command to
\* the provider exactly when a connection is present, whatever the card, and
\* otherwise fails without a provider call.
C12_CallPreconditions ==
    /\ [][TransmitCalled =>
            IF card # NoCard /\ connection # 0
            THEN /\ NewTx.forwarded
                 /\ NewTx.outcome = "pending"
                 /\ \E op \in ops' \ ops : op.kind = "transmit" /\ op.who = "user"
            ELSE /\ ~NewTx.forwarded
                 /\ NewTx.outcome = "card_not_connected"
                 /\ ops' = ops]_vars
    /\ [][ControlCalled =>
            IF connection # 0
            THEN /\ NewIo.forwarded
                 /\ NewIo.outcome = "pending"
                 /\ \E op \in ops' \ ops : op.kind = "control"
            ELSE /\ ~NewIo.forwarded
                 /\ NewIo.outcome = "not_connected"
                 /\ ops' = ops]_vars

C12_Witness ==
    /\ card = NoCard
    /\ connection # 0
    /\ \E t \in 1..Len(userTx) : userTx[t].outcome = "card_not_connected"
    /\ \E c \in 1..Len(ios) :
          /\ ios[c].kind = "control"
          /\ ~ios[c].hadCard
          /\ ios[c].forwarded
          /\ ios[c].outcome = "ok"

\* The least n with n * d >= x.
CeilDiv(x, d) == CHOOSE n \in 0..x : n * d >= x /\ (n - 1) * d < x

Min(a, b) == IF a <= b THEN a ELSE b

\* The read calls that split: a card was present and length > packetSize.
SplitReads ==
    { r \in 1..Len(ios) : /\ ios[r].kind = "read"
                          /\ ios[r].hadCard
                          /\ ios[r].args.length > ios[r].args.packetSize }

\* C13: a read of L bytes in packets of P < L bytes issues ceil(L/P)
\* Read-Binary commands; command i (from 0) names block
\* block + (i*P)/blockSize (the integer part) and asks for min(P, L - i*P)
\* bytes; and when every sub-read succeeds the call returns exactly L bytes.
C13_SplitRead ==
    \A r \in SplitReads :
        LET a == ios[r].args
            n == CeilDiv(a.length, a.packetSize)
        IN  /\ Len(ios[r].packets) = n
            /\ \A i \in 0..(n - 1) :
                   LET b == a.block + ((i * a.packetSize) \div a.blockSize)
                   IN  ios[r].packets[i + 1] =
                           <<255, 176, b \div 256, b % 256,
                             Min(a.packetSize, a.length - i * a.packetSize)>>
            /\ ios[r].outcome = "ok" => Len(ios[r].result) = a.length

C13_Witness ==
    \E r \in SplitReads :
        /\ ios[r].args.length = 5
        /\ Len(ios[r].packets) = 3
        /\ ios[r].outcome = "ok"
        /\ ios[r].order = <<3, 1, 2>>
        /\ \E i \in 1..3 : Len(ios[r].values[i].bytes) < ios[r].packets[i][5]

\* The write calls made with a card present.
CardWrites == { w \in 1..Len(ios) : ios[w].kind = "write" /\ ios[w].hadCard }

WholeBlocks(io) ==
    /\ Len(io.args.data) >= io.args.blockSize
    /\ Len(io.args.data) % io.args.blockSize = 0

\* The write call of this step, when data is not a whole number of blocks,
\* reaches no provider call.
C14_InvalidSendsNothing ==
    (/\ Len(ios') = Len(ios) + 1
     /\ ios'[Len(ios')].kind = "write"
     /\ ios'[Len(ios')].hadCard
     /\ ~WholeBlocks(ios'[Len(ios')]))
    => ops' = ops

C14_WriteRecords ==
    \A w \in CardWrites :
        LET a == ios[w].args
            B == a.blockSize
            n == Len(a.data) \div B
        IN  IF ~WholeBlocks(ios[w])
            THEN /\ ios[w].outcome = "invalid_data_length"
                 /\ ios[w].packets = <<>>
                 /\ ~ios[w].forwarded
            ELSE /\ Len(ios[w].packets) = n
                 /\ \A i \in 0..(n - 1) :
                        ios[w].packets[i + 1] =
                            <<255, 214, 0, a.block + i, B>>
                                \o [k \in 1..B |-> a.data[i * B + k]]
                 /\ (\A i \in 1..n : ios[w].values[i].st = "ok") => ios[w].outcome = "ok"
                 /\ ios[w].outcome = "ok" => \A i \in 1..n : ios[w].values[i].st = "ok"

\* C14: write(block, data, B) with a card present fails with
\* invalid_data_length, sending nothing, when data is shorter than B or not
\* a multiple of B; otherwise it sends exactly Len(data)/B Update-Binary
\* commands, the i-th (from 0) to block + i with bytes [i*B, (i+1)*B) of
\* data, and succeeds when every one of them is answered 0x9000.
C14_Write == [][C14_InvalidSendsNothing]_vars /\ []C14_WriteRecords

C14_Witness ==
    /\ \E w \in CardWrites : /\ Len(ios[w].packets) = 2
                             /\ ios[w].outcome = "ok"
                             /\ ios[w].order = <<2, 1>>
    /\ ops = {}

\* The requests of a call that failed.
FailedSubs(io) == { i \in 1..Len(io.values) : io.values[i].st = "err" }

\* C15: a split read with a failing sub-read fails as a whole, with the
\* error of the failing sub-read that comes first in request order,
\* whatever the order in which the sub-reads completed.
C15_FirstErrorInRequestOrder ==
    \A r \in SplitReads :
        (ios[r].forwarded /\ Len(ios[r].order) = Len(ios[r].packets)
                          /\ FailedSubs(ios[r]) # {})
        => LET first == MinOf(FailedSubs(ios[r]))
           IN  /\ ios[r].outcome \notin {"ok", "pending"}
               /\ ios[r].failedAt = first
               /\ ios[r].outcome = ios[r].values[first].code

\* The call started by this step is a read or a write whose commands
\* reached the provider.
SplitCalled ==
    /\ Len(ios') = Len(ios) + 1
    /\ ios'[Len(ios')].kind \in {"read", "write"}
    /\ ios'[Len(ios')].forwarded

\* The step that makes the call hands every one of its commands to the
\* provider, and none of them has been answered or awaited by then.
C16_AllStartedAtOnce ==
    SplitCalled =>
        LET id == Len(ios')
            io == ios'[id]
            started == ops' \ ops
        IN  /\ Cardinality(started) = Len(io.packets)
            /\ \A i \in 1..Len(io.packets) :
                   \E op \in started : /\ op.kind = "transmit"
                                       /\ op.ref = 10 * id + i
                                       /\ op.packet = io.packets[i]
            /\ \A i \in 1..Len(io.packets) : io.values[i].st = "pending"
            /\ io.order = <<>>
            /\ io.outcome = "pending"

\* The bytes of the sub-results of a call, joined in request order.
RECURSIVE JoinedFrom(_, _)
JoinedFrom(io, i) ==
    IF i > Len(io.values) THEN <<>> ELSE io.values[i].bytes \o JoinedFrom(io, i + 1)

\* The bytes a successful split read returns are those of its sub-results
\* joined in request order (cut or zero-filled to the requested length; the
\* join itself when every sub-result has the size asked for).
C16_JoinedInRequestOrder ==
    \A r \in SplitReads :
        ios[r].outcome = "ok" =>
            LET joined == JoinedFrom(ios[r], 1)
                L == ios[r].args.length
            IN  /\ Len(ios[r].result) = L
                /\ \A k \in 1..L :
                       ios[r].result[k] = IF k <= Len(joined) THEN joined[k] ELSE 0
                /\ (\A i \in 1..Len(ios[r].packets) :
                        Len(ios[r].values[i].bytes) = ios[r].packets[i][5])
                   => ios[r].result = joined

\* C16: every sub-read (sub-write) of a split read (write) is handed to the
\* provider by the call itself, before any result is awaited; the provider
\* may complete them in any order; and a successful split read returns the
\* sub-results joined in request order, whatever order they completed in.
C16_EagerAndOrdered == [][C16_AllStartedAtOnce]_vars /\ []C16_JoinedInRequestOrder

C16_Witness ==
    \E r \in SplitReads :
        /\ ios[r].outcome = "ok"
        /\ ios[r].order = <<2, 1>>
        /\ ios[r].result = <<1, 8, 15, 22, 29, 36, 43, 50>>

\* The slots that hold the key of the authenticate call made by this step.
HoldingSlots ==
    { n \in Slots : /\ keyStorage[n] # <<>>
                    /\ toLowerCase(ToHex(keyStorage[n])) = toLowerCase(auths'[Len(auths')].key) }

EmptySlots == { n \in Slots : keyStorage[n] = <<>> }

\* C17: authenticate uses the slot that holds the requested key and issues
\* no Load-Auth-Key command; when no slot holds it, the load it starts
\* targets slot 0 if slot 0 is empty, else an empty slot if there is one,
\* else slot 0.
C17_SlotChoice ==
    [][Len(auths') = Len(auths) + 1 =>
        LET a == auths'[Len(auths')]
        IN  IF HoldingSlots # {}
            THEN /\ a.keyNumber \in HoldingSlots
                 /\ loads' = loads
                 /\ \A op \in ops' \ ops : op.who = "authenticate" /\ op.packet[10] = a.keyNumber
            ELSE Len(loads') = Len(loads) + 1 =>
                    LET l == loads'[Len(loads')]
                    IN  /\ IF 0 \in EmptySlots THEN l.keyNumber = 0
                           ELSE IF EmptySlots # {} THEN l.keyNumber \in EmptySlots
                           ELSE l.keyNumber = 0
                        /\ \A op \in ops' \ ops : op.who = "load" /\ op.packet[4] = l.keyNumber
    ]_vars

\* Both slots were taken, the load of a key held by neither went to slot 0
\* and overwrote it, and a later call for that key used slot 0 without a
\* load.
C17_Witness ==
    /\ keyStorage[0] = FromHex(KeyOther)
    /\ keyStorage[1] = StoredKeyB
    /\ \E l \in 1..Len(loads) : loads[l].keyNumber = 0 /\ loads[l].state = "resolved"
    /\ \E a \in 1..Len(auths) : auths[a].load = 0 /\ auths[a].keyNumber = 0
                                /\ auths[a].packet # <<>>

\* The step runs loadAuthenticationKey on from its transmit, and the
\* transmit was answered 0x9000.
LoadAnswered9000 ==
    /\ jobs # <<>>
    /\ Head(jobs).k = "load"
    /\ jobs' # jobs
    /\ Head(jobs).ok
    /\ Len(Head(jobs).resp) = 2
    /\ Head(jobs).resp[1] = 144
    /\ Head(jobs).resp[2] = 0

\* keyStorage with the key of load l in the slot of load l.
Stored(l) == [keyStorage EXCEPT ![loads[l].keyNumber] = FromHex(loads[l].key)]

C18_OnlySuccessfulLoad ==
    /\ keyStorage' # keyStorage => LoadAnswered9000
    /\ LoadAnswered9000 =>
           /\ keyStorage' = Stored(Head(jobs).ref)
           /\ loads'[Head(jobs).ref].state = "resolved"

\* A call that got past its await of a load got the slot of that load.
C18_LoadReturnsSlot ==
    \A a \in 1..Len(auths) :
        (auths[a].load # 0 /\ auths[a].pc \notin {"awaitLoad", "unable_to_load_key"})
        => /\ loads[auths[a].load].state = "resolved"
           /\ auths[a].keyNumber = loads[auths[a].load].keyNumber

\* C18: keyStorage changes only where loadAuthenticationKey got status
\* 0x9000 for its command; that step sets exactly the slot of the load to the
\* key of the load, and the load returns the slot. Failed loads, the steps of
\* authenticate, connect, disconnect, insertion and removal leave it as it
\* is.
C18_KeyStorageFrame == [][C18_OnlySuccessfulLoad]_vars /\ []C18_LoadReturnsSlot

\* A load stored its key in slot 0 and its caller got slot 0, the card was
\* then removed and disconnected, and a load started without a card failed:
\* the key is still in slot 0 and slot 1 is still empty.
C18_Witness ==
    /\ keyStorage[0] = FromHex(KeyLower)
    /\ keyStorage[1] = <<>>
    /\ card = NoCard
    /\ connection = 0
    /\ log[Len(log)].chan = "card.off"
    /\ Len(loads) = 2
    /\ loads[1].state = "resolved"
    /\ loads[2].state = "rejected"
    /\ auths[1].keyNumber = 0
    /\ auths[1].pc = "ok"

\* The step resumes an insertion handler whose connect succeeded.
ConnectSucceeded ==
    /\ jobs # <<>>
    /\ Head(jobs).k = "afterConnect"
    /\ Head(jobs).ok
    /\ jobs' = Tail(jobs)

\* The step emits a card event.
CardEmitted ==
    /\ Len(log') > Len(log)
    /\ \E i \in (Len(log) + 1)..Len(log') : log'[i].chan = "card"

\* The step resumes the dispatcher after a Get-UID or SELECT exchange that
\* was answered with status 0x9000.
ExchangeSucceeded ==
    /\ jobs # <<>>
    /\ Head(jobs).k \in {"getuid", "select"}
    /\ Head(jobs).ok
    /\ Len(Head(jobs).resp) >= 2
    /\ Head(jobs).resp[Len(Head(jobs).resp) - 1] = 144
    /\ Head(jobs).resp[Len(Head(jobs).resp)] = 0

C19_Disabled ==
    ~autoProcessing =>
        /\ ConnectSucceeded =>
               /\ Len(log') = Len(log) + 1
               /\ log'[Len(log')].chan = "card"
               /\ log'[Len(log')].snap = card
               /\ log'[Len(log')].st = Head(jobs).st
               /\ ops' = ops
        /\ CardEmitted => ConnectSucceeded
        /\ \A op \in ops' : op.kind # "transmit"

C19_Enabled ==
    autoProcessing =>
        /\ CardEmitted => ExchangeSucceeded
        /\ ConnectSucceeded => ~CardEmitted

\* C19: with autoProcessing disabled, the insertion handler emits card, with
\* the snapshot of this.card, in the step that follows a successful connect,
\* and the reader transmits nothing; with autoProcessing enabled a card event
\* is emitted only by the dispatcher's step after a Get-UID or SELECT
\* exchange that succeeded.
C19_CardEventTiming == [][C19_Disabled /\ C19_Enabled]_vars

\* autoProcessing is off, a card was inserted and connected, and its card
\* event, carrying the card, is the latest entry; nothing was transmitted.
C19_Witness ==
    /\ ~autoProcessing
    /\ card # NoCard
    /\ connection = card.ins
    /\ log # <<>>
    /\ log[Len(log)].chan = "card"
    /\ log[Len(log)].snap = card
    /\ \A i \in 1..Len(log) : log[i].chan # "transmit.ok"

\* The step resumes an insertion handler that enters the 14443-4 path with
\* card and connection present.
Enters14443_4 ==
    /\ ConnectSucceeded
    /\ autoProcessing
    /\ card # NoCard
    /\ card.standard = TAG_ISO_14443_4
    /\ connection # 0

\* The step resumes the dispatcher after its SELECT completed.
SelectCompleted ==
    /\ jobs # <<>>
    /\ Head(jobs).k = "select"
    /\ jobs' = Tail(jobs)

\* The response of the completed SELECT ends in status word 0x9000.
SelectAnswered9000 ==
    LET resp == Head(jobs).resp
    IN  /\ Head(jobs).ok
        /\ Len(resp) >= 2
        /\ resp[Len(resp) - 1] = 144
        /\ resp[Len(resp)] = 0

C20_AidChecked ==
    Enters14443_4 =>
        IF aid \in {"unset", "fn_other"}
        THEN /\ Len(log') = Len(log) + 1
             /\ log'[Len(log')].chan = "error"
             /\ ops' = ops
        ELSE /\ log' = log
             /\ Cardinality(ops' \ ops) = 1
             /\ \A op \in ops' \ ops :
                    /\ op.kind = "transmit"
                    /\ op.packet = <<0, 164, 4, 0, 3, 240, 1, 2, 0>>

C20_OneEventPerSelect ==
    SelectCompleted =>
        /\ Len(log') = Len(log) + 1
        /\ SubSeq(log', 1, Len(log)) = log
        /\ ops' = ops
        /\ IF SelectAnswered9000
           THEN /\ log'[Len(log')].chan = "card"
                /\ log'[Len(log')].data =
                       SubSeq(Head(jobs).resp, 1, Len(Head(jobs).resp) - 2)
           ELSE log'[Len(log')].chan = "error"

\* A SELECT is only ever transmitted with an AID that is a byte string.
C20_SelectNeedsAid ==
    \A op \in ops' \ ops : op.who = "select" => aid \in {"buffer", "fn_buffer"}

\* C20: on the 14443-4 path with card and connection present, a missing AID
\* or a callable AID that returns no byte string gives an error event and no
\* SELECT; otherwise exactly one SELECT is transmitted and exactly one event
\* follows its completion: card, with the response less its status word as
\* data, iff the status word is 0x9000; error for 0x6A82, any other status,
\* a response shorter than 2 bytes and a transmit failure.
C20_SelectOutcome ==
    [][C20_AidChecked /\ C20_OneEventPerSelect /\ C20_SelectNeedsAid]_vars

\* The SELECT of a 14443-4 card was answered 0x9000 and the card event with
\* the payload of the response is the latest entry.
C20_Witness ==
    /\ aid = "fn_buffer"
    /\ card # NoCard
    /\ card.standard = TAG_ISO_14443_4
    /\ log # <<>>
    /\ log[Len(log)].chan = "card"
    /\ log[Len(log)].data = <<17, 34>>
    /\ log[Len(log)].snap = card

\* The Authenticate commands handed to the provider by this step.
AuthenticateSent == { op \in ops' \ ops : op.kind = "transmit" /\ op.who = "authenticate" }

\* The keys the reader may hold in slot s: the key of the last load that was
\* answered 0x9000, or that of a Load-Auth-Key command for s that was handed
\* to the provider and is not answered yet; the reader runs such a command
\* before any command handed over later.
ReaderMayHold(s) ==
    {keyStorage[s]} \cup
    { SubSeq(op.packet, 6, Len(op.packet)) :
        op \in { o \in ops : o.kind = "transmit" /\ o.who = "load" /\ o.packet[4] = s } }

\* C21: when authenticate sends an Authenticate command naming slot s for
\* key k, keyStorage[s] is k and k is the key the reader holds in slot s: no
\* load of another key into s is on its way to the reader.
C21_SlotHoldsKey ==
    [][\A op \in AuthenticateSent :
          /\ keyStorage[op.packet[10]] = FromHex(auths'[op.ref].key)
          /\ ReaderMayHold(op.packet[10]) = {FromHex(auths'[op.ref].key)}]_vars

\* The step resumes the dispatcher after the Get-UID or SELECT command of
\* an insertion was answered.
DispatcherResumes ==
    /\ jobs # <<>>
    /\ Head(jobs).k \in {"getuid", "select"}
    /\ jobs' = Tail(jobs)

\* The dispatcher writes the UID of the held card, or emits a card event for
\* it, only on the response to the command of its own insertion.
C22_OwnResponseOnly ==
    (DispatcherResumes /\ card # NoCard /\ (card' # card \/ CardEmitted))
    => card.ins = Head(jobs).ref

\* With the dispatcher in use no insertion has two card events.
C22_OneCardEvent ==
    \A i, j \in 1..Len(log) :
        (/\ autoProcessing
         /\ i < j
         /\ log[i].chan = "card"
         /\ log[j].chan = "card"
         /\ log[i].held # 0)
        => log[i].held # log[j].held

\* C22: a card event of the dispatcher carries the UID or SELECT data of the
\* response to the command issued for the insertion that is held: a response
\* that arrives after its card was removed and another inserted neither sets
\* the UID of the second card nor emits a card event for it, and each
\* insertion has at most one card event.
C22_NoLateResponse == [][C22_OwnResponseOnly]_vars /\ []C22_OneCardEvent

\* C23: every card event is emitted while a card is held; when the removal
\* of an insertion was handled while its connect was pending, the completion
\* of the connect emits no card event for that insertion.
C23_CardEventHasCard ==
    \A i \in 1..Len(log) : log[i].chan = "card" => log[i].held # 0 /\ log[i].snap # NoCard

\* The step clears a connection.
ConnectionCleared == connection # 0 /\ connection' = 0

\* C24: the connection made for an insertion stays until a removal status
\* that follows that insertion has been handled: it is cleared only by the
\* completion of a disconnect issued for such a removal, never by that of a
\* disconnect issued for an earlier one.
C24_ConnectionOutlivesOldDisconnect ==
    [][ConnectionCleared =>
          \E op \in ops \ ops' : /\ op.kind = "disconnect"
                                 /\ op.st > insertions[connection]]_vars

====
